---- MODULE Spec2Model ----
(***************************************************************************)
(* Model of the streaming agent of p001-stream-server.                     *)
(*                                                                         *)
(* Spec     : src/server4.py, the producer/consumer variant: main,         *)
(*            start_server, reconnect, stream_video and handle_message,    *)
(*            run by one asyncio event loop.  A coroutine runs without     *)
(*            interruption from one await to the next, so every action is  *)
(*            the code between two awaits.                                 *)
(* SpecFile : src/main_my4.py, the file-backed variant: the streaming loop *)
(*            of start_server with its rewind at the end of the file.      *)
(***************************************************************************)
EXTENDS Integers, FiniteSets, Sequences, TLC

\* ---------------------------------------------------------------- bounds
MaxConn == 2        \* connections the relay accepts in one run
MaxFrames == 3      \* frames of the longest video file

\* ------------------------------------------------------ program constants
SelectedDelay == 33       \* asyncio.sleep(0.033), milliseconds
UnselectedDelay == 100    \* asyncio.sleep(0.1)
ErrorDelay == 1000        \* asyncio.sleep(1)
RetryDelay == 5000        \* asyncio.sleep(5)

Conns == 1..MaxConn
SessionIds == {"uuid_a", "uuid_b"}    \* values uuid.uuid4() can produce
Absent == "absent"                    \* a key the JSON object does not have

VARIABLES
    server_id,     \* self.server_id
    is_selected,   \* self.is_selected
    running,       \* self.running
    cap,           \* self.cap: [id, opened]; id 0 is None
    relay_ws,      \* self.relay_ws: the connection in use, 0 before the first
    conn,          \* state of every transport: "unused", "open", "closed_error", "closed_ok"
    nconn,         \* connections established so far
    spc,           \* where the supervisor (main / start_server / reconnect) is
    inReconnect,   \* the running start_server was called by reconnect
    tasks,         \* the stream_video tasks, by the connection that spawned them
    registers,     \* register messages sent, per connection
    cause,         \* per connection: what made the supervisor establish it
    trigger,       \* what made the supervisor start the connect attempts under way
    sent,          \* the message the last step put on the wire, if any
    recv,          \* the message the last step handed to handle_message, if any
    file           \* main_my4.py: the video file behind self.cap, and the frame in hand

vars == <<server_id, is_selected, running, cap, relay_ws, conn, nconn, spc,
          inReconnect, tasks, registers, cause, trigger, sent, recv, file>>

\* ------------------------------------------------------------- messages
NoData == [res |-> "none", quality |-> 0, enhanced |-> FALSE, progressive |-> FALSE]
NoSent == [type |-> "none", server_id |-> "none", data |-> NoData,
           is_selected |-> FALSE, conn |-> 0, by |-> 0]
NoRecv == [form |-> "none", type |-> "none", server_id |-> "none", selected |-> "none",
           repeat |-> FALSE]

\* Inbound frames: text that json.loads rejects, JSON that is no object, and
\* objects with or without the keys handle_message looks at.
InboundMessages ==
    {[form |-> "invalid", type |-> Absent, server_id |-> Absent, selected |-> Absent],
     [form |-> "array", type |-> Absent, server_id |-> Absent, selected |-> Absent]}
    \cup [form : {"object"}, type : {"other", Absent},
          server_id : {Absent}, selected : {Absent}]
    \cup [form : {"object"}, type : {"select"},
          server_id : SessionIds \cup {Absent}, selected : {"true", "false", Absent}]

\* The record of a handled message: repeat says that the message handled just
\* before it, with nothing in between, was the same one.
Handled(message, last) ==
    [form |-> message.form, type |-> message.type, server_id |-> message.server_id,
     selected |-> message.selected,
     repeat |-> /\ last.form = message.form
                /\ last.type = message.type
                /\ last.server_id = message.server_id
                /\ last.selected = message.selected]

\* dict.get(key, default)
get(value, default) == IF value = Absent THEN default ELSE value

\* The Python value of a JSON boolean.
json_bool(value) == value = "true"

\* -------------------------------------------------------- handle_message
\* Variant: a select message flips the flag.
handle_message_toggle(message, selected, sid) ==
    IF message.form = "object" /\ message.type = "select"
    THEN [is_selected |-> ~selected, raised |-> FALSE]
    ELSE [is_selected |-> selected, raised |-> FALSE]

\* Variant: the parse errors are not caught, and an unrecognized type resets
\* the flag.
handle_message_strict(message, selected, sid) ==
    IF message.form = "invalid" THEN [is_selected |-> selected, raised |-> TRUE]
    ELSE IF message.form # "object" THEN [is_selected |-> selected, raised |-> TRUE]
    ELSE IF message.type = "select"
         THEN [is_selected |-> json_bool(get(message.selected, "false")), raised |-> FALSE]
         ELSE [is_selected |-> FALSE, raised |-> FALSE]

\* server4.py: json.loads and data.get inside try/except Exception; a select
\* message sets the flag whatever its server_id is.
handle_message(message, selected, sid) ==
    IF message.form = "invalid"
    THEN [is_selected |-> selected, raised |-> FALSE]     \* json.loads raises, caught
    ELSE IF message.form # "object"
    THEN [is_selected |-> selected, raised |-> FALSE]     \* data.get raises, caught
    ELSE IF message.type = "select"
    THEN [is_selected |-> json_bool(get(message.selected, "false")), raised |-> FALSE]
    ELSE [is_selected |-> selected, raised |-> FALSE]

\* ------------------------------------------------------------ the encoder
\* process_high_quality_frame: denoise, sharpen, resize; a plain resize to the
\* same size when the pipeline raises.
process_high_quality_frame(fault) ==
    IF fault = "enhance"
    THEN [res |-> "320x240", enhanced |-> FALSE]
    ELSE [res |-> "320x240", enhanced |-> TRUE]

\* Variant: an exception in the enhancement pipeline is not caught.
encode_no_fallback(selected, fault) ==
    IF fault = "total" \/ (selected /\ fault = "enhance")
    THEN [raised |-> TRUE, data |-> NoData]
    ELSE IF selected
    THEN [raised |-> FALSE,
          data |-> [res |-> "320x240", quality |-> 98, enhanced |-> TRUE,
                    progressive |-> TRUE]]
    ELSE [raised |-> FALSE,
          data |-> [res |-> "80x60", quality |-> 85, enhanced |-> FALSE,
                    progressive |-> FALSE]]

\* The encode step of stream_video for one frame: the tier comes from
\* self.is_selected.  fault "total" is an exception out of resize or imencode.
encode(selected, fault) ==
    IF fault = "total" THEN [raised |-> TRUE, data |-> NoData]
    ELSE IF selected
    THEN [raised |-> FALSE,
          data |-> [res |-> process_high_quality_frame(fault).res, quality |-> 98,
                    enhanced |-> process_high_quality_frame(fault).enhanced,
                    progressive |-> TRUE]]
    ELSE [raised |-> FALSE,
          data |-> [res |-> "80x60", quality |-> 85, enhanced |-> FALSE,
                    progressive |-> FALSE]]

EncodeFaults == {"none", "enhance", "total"}

\* The enhancement pipeline runs, and can raise, only for the selected tier
\* (line 76).
enhance_fails(selected, fault) == selected /\ fault = "enhance"

\* What makes a send raise: ConnectionClosed on a closed transport, another
\* exception on an open one.
SendFaults == {"closed", "error"}

\* The stream message of one iteration: built from self.server_id and a second
\* read of self.is_selected.
stream_message(sid, data, selected) ==
    [type |-> "stream", server_id |-> sid, data |-> data, is_selected |-> selected]

\* Variant: a reconnect registers under a newly generated id.
register_message_fresh(sid, n) ==
    [type |-> "register",
     server_id |-> IF n > 1 THEN CHOOSE s \in SessionIds : s # sid ELSE sid,
     data |-> NoData, is_selected |-> FALSE]

\* The register message of connection n.
register_message(sid, n) ==
    [type |-> "register", server_id |-> sid, data |-> NoData, is_selected |-> FALSE]

\* Variant: the two delays exchanged.
pacing_delay_swapped(selected) == IF selected THEN UnselectedDelay ELSE SelectedDelay

\* asyncio.sleep(0.033 if self.is_selected else 0.1)
pacing_delay(selected) == IF selected THEN SelectedDelay ELSE UnselectedDelay

OnWire(message, c, by) ==
    [type |-> message.type, server_id |-> message.server_id, data |-> message.data,
     is_selected |-> message.is_selected, conn |-> c, by |-> by]

\* ------------------------------------------------------------------ tasks
NoMsg == [type |-> "none", server_id |-> "none", data |-> NoData, is_selected |-> FALSE]

\* A stream_video task: where it is, the message it is sending and the
\* transport it sends it on, the sleep it is in, whether its iteration began
\* after the last change of self.is_selected, and whether the enhancement
\* pipeline of process_high_quality_frame raised for the frame in hand.
NoTask == [pc |-> "none", msg |-> NoMsg, target |-> 0, delay |-> 0, fresh |-> FALSE,
           enhance_failed |-> FALSE]

At(pc) == [NoTask EXCEPT !.pc = pc]

NoTrigger == [kind |-> "none", of |-> 0]

Alive(p) == tasks[p].pc \notin {"none", "done"}

\* stream_video, lines 62-65: after a failed read the task is back at line 60
\* without having awaited anything, so it still has the event loop and no
\* other coroutine of the program runs until it awaits or ends.
HoldsLoop(p) == tasks[p].pc = "retry"
LoopFree == \A q \in Conns : ~HoldsLoop(q)
LoopFreeFor(p) == \A q \in Conns \ {p} : ~HoldsLoop(q)

NoFile == [len |-> 0, pos |-> 0, frame |-> 0 - 1, rewound |-> FALSE, wrapped |-> FALSE]

Quiet == sent' = NoSent /\ recv' = NoRecv

\* ------------------------------------------------------------------ Init
\* VideoStreamServer.__init__ and the first call of start_server by main.
Init ==
    /\ server_id \in SessionIds
    /\ is_selected = FALSE
    /\ running = FALSE
    /\ cap = [id |-> 0, opened |-> FALSE]
    /\ relay_ws = 0
    /\ conn = [c \in Conns |-> "unused"]
    /\ nconn = 0
    /\ spc = "connect"
    /\ inReconnect = FALSE
    /\ tasks = [c \in Conns |-> NoTask]
    /\ registers = [c \in Conns |-> 0]
    /\ cause = [c \in Conns |-> NoTrigger]
    /\ trigger = [kind |-> "start", of |-> 0]
    /\ sent = NoSent
    /\ recv = NoRecv
    /\ file = NoFile

\* ======================================================= src/server4.py
\* ------------------------------------------------------------ supervisor
\* start_server, line 112: websockets.connect succeeds.
ConnectOK ==
    /\ spc = "connect"
    /\ LoopFree
    /\ nconn < MaxConn
    /\ nconn' = nconn + 1
    /\ relay_ws' = nconn + 1
    /\ conn' = [conn EXCEPT ![nconn + 1] = "open"]
    /\ cause' = [cause EXCEPT ![nconn + 1] = trigger]
    /\ spc' = "register"
    /\ Quiet
    /\ UNCHANGED <<server_id, is_selected, running, cap, inReconnect, tasks,
                   registers, trigger, file>>

\* Variant: reconnect gives up at a failed attempt instead of sleeping and
\* trying again.
ConnectFailGiveUp ==
    /\ spc = "connect"
    /\ LoopFree
    /\ running' = FALSE
    /\ spc' = IF inReconnect THEN "stopped" ELSE "delay"
    /\ Quiet
    /\ UNCHANGED <<server_id, is_selected, cap, relay_ws, conn, nconn, inReconnect,
                   tasks, registers, cause, trigger, file>>

\* websockets.connect raises: lines 146-149 set running False and re-raise,
\* and the caller (main, line 176, or reconnect, line 158) sleeps 5 s.
ConnectFail ==
    /\ spc = "connect"
    /\ LoopFree
    /\ running' = FALSE
    /\ spc' = "delay"
    /\ Quiet
    /\ UNCHANGED <<server_id, is_selected, cap, relay_ws, conn, nconn, inReconnect,
                   tasks, registers, cause, trigger, file>>

\* Variant: the register message is sent twice.
RegisterTwice ==
    /\ spc = "register"
    /\ LoopFree
    /\ conn[relay_ws] = "open"
    /\ sent' = OnWire(register_message(server_id, relay_ws), relay_ws, 0)
    /\ registers' = [registers EXCEPT ![relay_ws] = @ + 2]
    /\ spc' = "open_source"
    /\ recv' = NoRecv
    /\ UNCHANGED <<server_id, is_selected, running, cap, relay_ws, conn, nconn,
                   inReconnect, tasks, cause, trigger, file>>

\* Line 125: the register message goes out on the new transport.
Register ==
    /\ spc = "register"
    /\ LoopFree
    /\ conn[relay_ws] = "open"
    /\ sent' = OnWire(register_message(server_id, relay_ws), relay_ws, 0)
    /\ registers' = [registers EXCEPT ![relay_ws] = @ + 1]
    /\ spc' = "open_source"
    /\ recv' = NoRecv
    /\ UNCHANGED <<server_id, is_selected, running, cap, relay_ws, conn, nconn,
                   inReconnect, tasks, cause, trigger, file>>

\* Line 125 raises (the transport closed meanwhile, or another fault): the
\* handler of lines 146-149, then the caller's 5 s sleep; the retry that
\* follows belongs to the same loop of main or reconnect.
RegisterFail(fault) ==
    /\ spc = "register"
    /\ LoopFree
    /\ fault = "closed" <=> conn[relay_ws] # "open"
    /\ running' = FALSE
    /\ spc' = "delay"
    /\ Quiet
    /\ UNCHANGED <<server_id, is_selected, cap, relay_ws, conn, nconn, inReconnect,
                   tasks, registers, cause, trigger, file>>

\* Lines 129-135: a new VideoCapture replaces self.cap; when it is open,
\* running becomes True and the stream_video task is created.
OpenSourceOK ==
    /\ spc = "open_source"
    /\ LoopFree
    /\ cap' = [id |-> cap.id + 1, opened |-> TRUE]
    /\ running' = TRUE
    /\ tasks' = [tasks EXCEPT ![relay_ws] = At("top")]
    /\ spc' = "consume"
    /\ Quiet
    /\ UNCHANGED <<server_id, is_selected, relay_ws, conn, nconn, inReconnect,
                   registers, cause, trigger, file>>

\* Lines 130-132: the source is not open and start_server returns; a calling
\* reconnect breaks (line 157) and every frame below it returns, so main
\* (line 170) calls start_server again at once.
OpenSourceFail ==
    /\ spc = "open_source"
    /\ LoopFree
    /\ cap' = [id |-> cap.id + 1, opened |-> FALSE]
    /\ spc' = "connect"
    /\ inReconnect' = FALSE
    /\ trigger' = [kind |-> "open_failed", of |-> relay_ws]
    /\ Quiet
    /\ UNCHANGED <<server_id, is_selected, running, relay_ws, conn, nconn, tasks,
                   registers, cause, file>>

\* ---------------------------------------------------------------- consumer
\* Lines 138-139: one inbound message is received and handled.  An exception
\* out of handle_message would reach lines 146-149.
ConsumerReceive(message) ==
    LET r == handle_message(message, is_selected, server_id) IN
    /\ spc = "consume"
    /\ LoopFree
    /\ conn[relay_ws] = "open"
    /\ is_selected' = r.is_selected
    /\ recv' = Handled(message, recv)
    /\ sent' = NoSent
    /\ tasks' = [p \in Conns |->
                   IF r.is_selected # is_selected
                   THEN [tasks[p] EXCEPT !.fresh = FALSE] ELSE tasks[p]]
    /\ IF r.raised
       THEN /\ running' = FALSE
            /\ spc' = "delay"
            /\ trigger' = [kind |-> "consumer_raised", of |-> relay_ws]
       ELSE UNCHANGED <<running, spc, trigger>>
    /\ UNCHANGED <<server_id, cap, relay_ws, conn, nconn, inReconnect, registers,
                   cause, file>>

\* Lines 140-143: the iteration raises ConnectionClosed; running becomes False
\* and the supervisor awaits the task.
ConsumerClosedError ==
    /\ spc = "consume"
    /\ LoopFree
    /\ conn[relay_ws] = "closed_error"
    /\ running' = FALSE
    /\ spc' = "join"
    /\ Quiet
    /\ UNCHANGED <<server_id, is_selected, cap, relay_ws, conn, nconn, inReconnect,
                   tasks, registers, cause, trigger, file>>

\* Line 138: after a close handshake the iteration ends without an exception;
\* start_server falls off its end and main calls it again.
ConsumerClosedOK ==
    /\ spc = "consume"
    /\ LoopFree
    /\ conn[relay_ws] = "closed_ok"
    /\ spc' = "connect"
    /\ inReconnect' = FALSE
    /\ trigger' = [kind |-> "closure", of |-> relay_ws]
    /\ Quiet
    /\ UNCHANGED <<server_id, is_selected, running, cap, relay_ws, conn, nconn,
                   tasks, registers, cause, file>>

\* Lines 143-144: the awaited task is done; reconnect calls start_server.
Join ==
    /\ spc = "join"
    /\ LoopFree
    /\ tasks[relay_ws].pc = "done"
    /\ spc' = "connect"
    /\ inReconnect' = TRUE
    /\ trigger' = [kind |-> "closure", of |-> relay_ws]
    /\ Quiet
    /\ UNCHANGED <<server_id, is_selected, running, cap, relay_ws, conn, nconn,
                   tasks, registers, cause, file>>

\* Lines 160 and 178: the 5 s sleep ends and start_server is called again.
DelayElapsed ==
    /\ spc = "delay"
    /\ LoopFree
    /\ spc' = "connect"
    /\ Quiet
    /\ UNCHANGED <<server_id, is_selected, running, cap, relay_ws, conn, nconn,
                   inReconnect, tasks, registers, cause, trigger, file>>

\* The relay or the network closes a transport: with a close handshake
\* ("closed_ok") or without one ("closed_error").
CloseTransport(c, how) ==
    /\ spc \in {"connect", "register", "open_source", "consume", "join", "delay"}
    /\ conn[c] = "open"
    /\ conn' = [conn EXCEPT ![c] = how]
    /\ Quiet
    /\ UNCHANGED <<server_id, is_selected, running, cap, relay_ws, nconn, spc,
                   inReconnect, tasks, registers, cause, trigger, file>>

\* Lines 172-174 and 181: a KeyboardInterrupt ends main; asyncio.run then
\* cancels the tasks still pending and returns.  Nothing in that path sets
\* running, closes self.relay_ws or releases self.cap.  __del__ (lines
\* 162-166) does the first and the last when the interpreter finalizes the
\* object, which it may or may not do before the process is gone.
Shutdown(finalized) ==
    /\ spc # "stopped"
    /\ spc' = "stopped"
    /\ trigger' = [kind |-> "shutdown", of |-> relay_ws]
    /\ tasks' = [p \in Conns |-> IF Alive(p) THEN At("done") ELSE tasks[p]]
    /\ running' = IF finalized THEN FALSE ELSE running
    /\ cap' = IF finalized /\ cap.id # 0 THEN [cap EXCEPT !.opened = FALSE] ELSE cap
    /\ Quiet
    /\ UNCHANGED <<server_id, is_selected, relay_ws, conn, nconn, inReconnect,
                   registers, cause, file>>

\* ---------------------------------------------------------------- producer
AtLoopHead(p) == tasks[p].pc \in {"top", "retry"}

\* Line 60: running is False at the loop head and the task ends.
ProducerExit(p) ==
    /\ AtLoopHead(p)
    /\ LoopFreeFor(p)
    /\ ~running
    /\ tasks' = [tasks EXCEPT ![p] = At("done")]
    /\ Quiet
    /\ UNCHANGED <<server_id, is_selected, running, cap, relay_ws, conn, nconn, spc,
                   inReconnect, registers, cause, trigger, file>>

\* Lines 62-65: the read fails (always when self.cap is not open) and the
\* loop continues without awaiting anything.
ProducerReadFail(p) ==
    /\ AtLoopHead(p)
    /\ LoopFreeFor(p)
    /\ running
    /\ tasks' = [tasks EXCEPT ![p] = At("retry")]
    /\ Quiet
    /\ UNCHANGED <<server_id, is_selected, running, cap, relay_ws, conn, nconn, spc,
                   inReconnect, registers, cause, trigger, file>>

\* Lines 62-100: a frame is read and encoded, the message is built and the
\* send on self.relay_ws begins; an exception goes to lines 105-107.
ProducerIterate(p, fault) ==
    LET e == encode(is_selected, fault) IN
    /\ AtLoopHead(p)
    /\ LoopFreeFor(p)
    /\ running
    /\ cap.opened
    /\ tasks' = [tasks EXCEPT ![p] =
                   IF e.raised
                   THEN [At("backoff") EXCEPT
                            !.delay = ErrorDelay,
                            !.enhance_failed = enhance_fails(is_selected, fault)]
                   ELSE [At("send") EXCEPT
                            !.msg = stream_message(server_id, e.data, is_selected),
                            !.target = relay_ws,
                            !.fresh = TRUE,
                            !.enhance_failed = enhance_fails(is_selected, fault)]]
    /\ Quiet
    /\ UNCHANGED <<server_id, is_selected, running, cap, relay_ws, conn, nconn, spc,
                   inReconnect, registers, cause, trigger, file>>

\* Variant: is_selected is read for the message when the send completes, not
\* when the frame was encoded.
ProducerSendReread(p) ==
    /\ tasks[p].pc = "send"
    /\ LoopFreeFor(p)
    /\ conn[tasks[p].target] = "open"
    /\ sent' = OnWire([tasks[p].msg EXCEPT !.is_selected = is_selected],
                      tasks[p].target, p)
    /\ recv' = NoRecv
    /\ tasks' = [tasks EXCEPT ![p] =
                   [At("sleep") EXCEPT !.delay = pacing_delay(is_selected),
                                       !.fresh = tasks[p].fresh]]
    /\ UNCHANGED <<server_id, is_selected, running, cap, relay_ws, conn, nconn, spc,
                   inReconnect, registers, cause, trigger, file>>

\* Lines 100-103: the send completes and the pacing sleep begins.
ProducerSendOK(p) ==
    /\ tasks[p].pc = "send"
    /\ LoopFreeFor(p)
    /\ conn[tasks[p].target] = "open"
    /\ sent' = OnWire(tasks[p].msg, tasks[p].target, p)
    /\ recv' = NoRecv
    /\ tasks' = [tasks EXCEPT ![p] =
                   [At("sleep") EXCEPT !.delay = pacing_delay(is_selected),
                                       !.fresh = tasks[p].fresh]]
    /\ UNCHANGED <<server_id, is_selected, running, cap, relay_ws, conn, nconn, spc,
                   inReconnect, registers, cause, trigger, file>>

\* Lines 100, 105-107: the send raises (ConnectionClosed on a closed
\* transport, or another fault) and the task sleeps 1 s.
ProducerSendFail(p, fault) ==
    /\ tasks[p].pc = "send"
    /\ LoopFreeFor(p)
    /\ fault = "closed" <=> conn[tasks[p].target] # "open"
    /\ tasks' = [tasks EXCEPT ![p] = [At("backoff") EXCEPT !.delay = ErrorDelay]]
    /\ Quiet
    /\ UNCHANGED <<server_id, is_selected, running, cap, relay_ws, conn, nconn, spc,
                   inReconnect, registers, cause, trigger, file>>

\* Lines 103 and 107: the sleep ends.
ProducerWake(p) ==
    /\ tasks[p].pc \in {"sleep", "backoff"}
    /\ LoopFreeFor(p)
    /\ tasks' = [tasks EXCEPT ![p] = At("top")]
    /\ Quiet
    /\ UNCHANGED <<server_id, is_selected, running, cap, relay_ws, conn, nconn, spc,
                   inReconnect, registers, cause, trigger, file>>

Next ==
    \/ ConnectOK
    \/ ConnectFail
    \/ Register
    \/ \E fault \in SendFaults : RegisterFail(fault)
    \/ OpenSourceOK
    \/ OpenSourceFail
    \/ \E message \in InboundMessages : ConsumerReceive(message)
    \/ ConsumerClosedError
    \/ ConsumerClosedOK
    \/ Join
    \/ DelayElapsed
    \/ \E c \in Conns, how \in {"closed_error", "closed_ok"} : CloseTransport(c, how)
    \/ \E p \in Conns : ProducerExit(p)
    \/ \E p \in Conns : ProducerReadFail(p)
    \/ \E p \in Conns, fault \in EncodeFaults : ProducerIterate(p, fault)
    \/ \E p \in Conns : ProducerSendOK(p)
    \/ \E p \in Conns, fault \in SendFaults : ProducerSendFail(p, fault)
    \/ \E p \in Conns : ProducerWake(p)
    \/ \E finalized \in BOOLEAN : Shutdown(finalized)

Spec == Init /\ [][Next]_vars

\* The event loop runs a coroutine whose sleep has ended: the 5 s sleeps of
\* lines 160 and 178 do end.
SpecRetry == Spec /\ WF_vars(DelayElapsed)

\* The event loop runs every coroutine that is ready: the supervisor goes on
\* when its connect, send, sleep, receive loop or awaited task has ended; a
\* task goes on when its sleep or send has ended, and a task that is ready
\* at line 60 runs.  What the relay, the network and the camera do is left
\* open: a read may fail every time.  Nothing runs while a task holds the
\* loop (HoldsLoop), hence strong fairness.
SpecCancel ==
    /\ Spec
    /\ SF_vars(ConnectOK \/ ConnectFail)
    /\ SF_vars(Register \/ \E fault \in SendFaults : RegisterFail(fault))
    /\ SF_vars(OpenSourceOK \/ OpenSourceFail)
    /\ SF_vars(ConsumerClosedError)
    /\ SF_vars(ConsumerClosedOK)
    /\ SF_vars(Join)
    /\ SF_vars(DelayElapsed)
    /\ \A p \in Conns :
          /\ SF_vars(ProducerExit(p))
          /\ SF_vars(ProducerWake(p))
          /\ SF_vars(ProducerSendOK(p) \/ \E fault \in SendFaults : ProducerSendFail(p, fault))
          /\ SF_vars(/\ tasks[p].pc = "top"
                     /\ \/ ProducerReadFail(p)
                        \/ \E fault \in EncodeFaults : ProducerIterate(p, fault))

\* ====================================================== src/main_my4.py
\* The file-backed variant has no tasks: start_server itself reads, encodes
\* and sends in one loop.  It uses server_id, cap, relay_ws, conn, nconn, spc,
\* inReconnect, registers, cause, trigger and sent as above, and file.

\* cv2.VideoCapture(self.video_path) on a file of n frames: positioned at the
\* first frame.
open_file(n) == [NoFile EXCEPT !.len = n]

\* self.cap.read(): the frame at the position, or ret False at the end of the
\* file and on a capture that is not open.
can_read(f, opened) == opened /\ f.pos < f.len

\* wrapped: the frame was read right after a rewind.
read_frame(f) ==
    [f EXCEPT !.frame = f.pos, !.pos = f.pos + 1, !.rewound = FALSE,
              !.wrapped = f.rewound]

\* Variant: the rewind lands on the second frame.
rewind_short(f, opened) ==
    IF opened THEN [f EXCEPT !.pos = IF f.len > 1 THEN 1 ELSE 0, !.rewound = TRUE] ELSE f

\* self.cap.set(cv2.CAP_PROP_POS_FRAMES, 0); no effect on a capture that is
\* not open.
rewind(f, opened) ==
    IF opened THEN [f EXCEPT !.pos = 0, !.rewound = TRUE] ELSE f

InitFile ==
    /\ server_id \in SessionIds
    /\ is_selected = FALSE
    /\ running = FALSE
    /\ cap = [id |-> 0, opened |-> FALSE]
    /\ relay_ws = 0
    /\ conn = [c \in Conns |-> "unused"]
    /\ nconn = 0
    /\ spc = "connect"
    /\ inReconnect = FALSE
    /\ tasks = [c \in Conns |-> NoTask]
    /\ registers = [c \in Conns |-> 0]
    /\ cause = [c \in Conns |-> NoTrigger]
    /\ trigger = [kind |-> "start", of |-> 0]
    /\ sent = NoSent
    /\ recv = NoRecv
    /\ file \in {[NoFile EXCEPT !.len = n] : n \in 1..MaxFrames}

\* Line 32: websockets.connect succeeds.
FileConnectOK ==
    /\ spc = "connect"
    /\ nconn < MaxConn
    /\ nconn' = nconn + 1
    /\ relay_ws' = nconn + 1
    /\ conn' = [conn EXCEPT ![nconn + 1] = "open"]
    /\ cause' = [cause EXCEPT ![nconn + 1] = trigger]
    /\ spc' = "register"
    /\ Quiet
    /\ UNCHANGED <<server_id, is_selected, running, cap, inReconnect, tasks,
                   registers, trigger, file>>

\* Lines 93-95 re-raise; main (line 124) or reconnect (line 106) sleeps 5 s.
FileConnectFail ==
    /\ spc = "connect"
    /\ spc' = "delay"
    /\ Quiet
    /\ UNCHANGED <<server_id, is_selected, running, cap, relay_ws, conn, nconn,
                   inReconnect, tasks, registers, cause, trigger, file>>

\* Line 45.
FileRegister ==
    /\ spc = "register"
    /\ conn[relay_ws] = "open"
    /\ sent' = OnWire(register_message(server_id, relay_ws), relay_ws, 0)
    /\ registers' = [registers EXCEPT ![relay_ws] = @ + 1]
    /\ spc' = "open_source"
    /\ recv' = NoRecv
    /\ UNCHANGED <<server_id, is_selected, running, cap, relay_ws, conn, nconn,
                   inReconnect, tasks, cause, trigger, file>>

\* Line 45 raises.
FileRegisterFail(fault) ==
    /\ spc = "register"
    /\ fault = "closed" <=> conn[relay_ws] # "open"
    /\ spc' = "delay"
    /\ Quiet
    /\ UNCHANGED <<server_id, is_selected, running, cap, relay_ws, conn, nconn,
                   inReconnect, tasks, registers, cause, trigger, file>>

\* Lines 49-55: the file opens and the loop begins.
FileOpenSourceOK ==
    /\ spc = "open_source"
    /\ cap' = [id |-> cap.id + 1, opened |-> TRUE]
    /\ file' = open_file(file.len)
    /\ spc' = "read"
    /\ Quiet
    /\ UNCHANGED <<server_id, is_selected, running, relay_ws, conn, nconn,
                   inReconnect, tasks, registers, cause, trigger>>

\* Lines 50-52: the file does not open and start_server returns: to main,
\* which calls it again, or through reconnect (line 103) into the loop of the
\* start_server that called reconnect (line 88), now with the unopened capture.
FileOpenSourceFail ==
    /\ spc = "open_source"
    /\ cap' = [id |-> cap.id + 1, opened |-> FALSE]
    /\ spc' = IF inReconnect THEN "read" ELSE "connect"
    /\ trigger' = [kind |-> "open_failed", of |-> relay_ws]
    /\ Quiet
    /\ UNCHANGED <<server_id, is_selected, running, relay_ws, conn, nconn,
                   inReconnect, tasks, registers, cause, file>>

\* Lines 59, 65-82: a frame is read and encoded and its send begins.
FileRead ==
    /\ spc = "read"
    /\ can_read(file, cap.opened)
    /\ file' = read_frame(file)
    /\ spc' = "send"
    /\ Quiet
    /\ UNCHANGED <<server_id, is_selected, running, cap, relay_ws, conn, nconn,
                   inReconnect, tasks, registers, cause, trigger>>

\* Lines 59-63: ret is False; the capture is set back to frame 0 and the loop
\* continues.
FileEndOfVideo ==
    /\ spc = "read"
    /\ ~can_read(file, cap.opened)
    /\ file' = rewind(file, cap.opened)
    /\ spc' = "read"
    /\ Quiet
    /\ UNCHANGED <<server_id, is_selected, running, cap, relay_ws, conn, nconn,
                   inReconnect, tasks, registers, cause, trigger>>

\* Lines 82-84: the send completes; the 33 ms sleep begins.
FileSendOK ==
    /\ spc = "send"
    /\ conn[relay_ws] = "open"
    /\ sent' = OnWire([type |-> "stream", server_id |-> server_id,
                       data |-> [NoData EXCEPT !.res = "source"],
                       is_selected |-> FALSE], relay_ws, 0)
    /\ recv' = NoRecv
    /\ spc' = "sleep"
    /\ UNCHANGED <<server_id, is_selected, running, cap, relay_ws, conn, nconn,
                   inReconnect, tasks, registers, cause, trigger, file>>

\* Lines 86-88: the send raises ConnectionClosed; reconnect calls start_server.
FileSendClosed ==
    /\ spc = "send"
    /\ conn[relay_ws] # "open"
    /\ spc' = "connect"
    /\ inReconnect' = TRUE
    /\ trigger' = [kind |-> "closure", of |-> relay_ws]
    /\ Quiet
    /\ UNCHANGED <<server_id, is_selected, running, cap, relay_ws, conn, nconn,
                   tasks, registers, cause, file>>

\* Lines 89-91: another exception in the iteration; the loop sleeps 1 s.
FileSendError ==
    /\ spc = "send"
    /\ conn[relay_ws] = "open"
    /\ spc' = "backoff"
    /\ Quiet
    /\ UNCHANGED <<server_id, is_selected, running, cap, relay_ws, conn, nconn,
                   inReconnect, tasks, registers, cause, trigger, file>>

\* Lines 84 and 91: the sleep ends and the next iteration begins.
FileWake ==
    /\ spc \in {"sleep", "backoff"}
    /\ spc' = "read"
    /\ Quiet
    /\ UNCHANGED <<server_id, is_selected, running, cap, relay_ws, conn, nconn,
                   inReconnect, tasks, registers, cause, trigger, file>>

\* Lines 106 and 124: the 5 s sleep ends and start_server is called again.
FileDelayElapsed ==
    /\ spc = "delay"
    /\ spc' = "connect"
    /\ Quiet
    /\ UNCHANGED <<server_id, is_selected, running, cap, relay_ws, conn, nconn,
                   inReconnect, tasks, registers, cause, trigger, file>>

NextFile ==
    \/ FileConnectOK
    \/ FileConnectFail
    \/ FileRegister
    \/ \E fault \in SendFaults : FileRegisterFail(fault)
    \/ FileOpenSourceOK
    \/ FileOpenSourceFail
    \/ FileRead
    \/ FileEndOfVideo
    \/ FileSendOK
    \/ FileSendClosed
    \/ FileSendError
    \/ FileWake
    \/ FileDelayElapsed
    \/ \E c \in Conns, how \in {"closed_error", "closed_ok"} : CloseTransport(c, how)

SpecFile == InitFile /\ [][NextFile]_vars

\* ================================================================ claims
Closed(c) == conn[c] \in {"closed_error", "closed_ok"}
OpenConns == {c \in Conns : conn[c] = "open"}
SelectedTier(data) == data.res = "320x240"
Closure(c) == [kind |-> "closure", of |-> c]

\* C1: every stream message a stream_video task sends, and every one it has
\* built and is sending, carries the is_selected value that chose the encode
\* tier of its frame, however the consumer's select handling interleaves.
C1_TagMatchesTier ==
    /\ sent.type = "stream" => (sent.is_selected <=> SelectedTier(sent.data))
    /\ \A p \in Conns :
         tasks[p].pc = "send" =>
            (tasks[p].msg.is_selected <=> SelectedTier(tasks[p].msg.data))

\* A selected-tier message goes out after the consumer has cleared the flag.
C1_Witness ==
    /\ sent.type = "stream"
    /\ sent.is_selected
    /\ SelectedTier(sent.data)
    /\ ~is_selected

C3_ProducerAndConsumerTogether ==
    /\ \A p \in Conns : Alive(p) => (relay_ws = p /\ spc \in {"consume", "join"})
    /\ spc = "consume" => Alive(relay_ws)

\* C4: at most one transport is open at any time.
C4_AtMostOneOpenTransport == Cardinality(OpenConns) <= 1

\* C5: self.server_id never changes, and every register and stream message
\* put on any connection carries it.
C5_SessionIdFixed ==
    [][/\ server_id' = server_id
       /\ sent'.type # "none" => sent'.server_id = server_id]_vars

\* A stream message goes out on the second connection.
C5_Witness ==
    /\ sent.type = "stream"
    /\ sent.conn = 2
    /\ sent.server_id = server_id
    /\ registers[1] = 1
    /\ registers[2] = 1

\* C6: handling a select message sets the flag to the message's value when
\* its server_id is absent or this session's, and leaves the flag alone when
\* its server_id is another session's.
C6_SelectOnlyForThisSession ==
    [][(recv'.form = "object" /\ recv'.type = "select") =>
          IF recv'.server_id \in {Absent, server_id}
          THEN is_selected' = json_bool(get(recv'.selected, "false"))
          ELSE is_selected' = is_selected]_vars

\* C7: an iteration of stream_video that began after the last change of the
\* flag has encoded at the tier of the flag's value, tagged its message with
\* that value, and paces with that value's delay.
C7_FreshIterationUsesNewValue ==
    \A p \in Conns :
       tasks[p].fresh =>
          /\ tasks[p].pc = "send" =>
                /\ tasks[p].msg.is_selected = is_selected
                /\ SelectedTier(tasks[p].msg.data) = is_selected
          /\ tasks[p].pc = "sleep" =>
                tasks[p].delay = IF is_selected THEN SelectedDelay ELSE UnselectedDelay

\* After a select message set the flag, an iteration begun since then is in
\* its 33 ms sleep.
C7_Witness ==
    /\ is_selected
    /\ \E p \in Conns :
          tasks[p].fresh /\ tasks[p].pc = "sleep" /\ tasks[p].delay = SelectedDelay

\* C8: handling a select message that was also the message handled just
\* before changes nothing: not the flag, not running, not the connection
\* state.
C8_SelectIdempotent ==
    [][(recv'.type = "select" /\ recv'.repeat) =>
          /\ is_selected' = is_selected
          /\ running' = running
          /\ spc' = spc
          /\ relay_ws' = relay_ws
          /\ conn' = conn]_vars

\* The same select message has been handled twice in a row.
C8_Witness ==
    /\ recv.type = "select"
    /\ recv.selected = "true"
    /\ recv.repeat
    /\ is_selected

\* C9: handling a message that does not parse, is no JSON object or has
\* another type than select leaves the flag and running as they were, and
\* the consumer loop stays in its iteration.
C9_MalformedDiscarded ==
    [][(recv'.form # "none" /\ ~(recv'.form = "object" /\ recv'.type = "select")) =>
          /\ is_selected' = is_selected
          /\ running' = running
          /\ spc = "consume"
          /\ spc' = "consume"]_vars

\* An unparseable message has been handled while the flag was set, and the
\* consumer goes on.
C9_Witness ==
    /\ recv.form = "invalid"
    /\ is_selected
    /\ running
    /\ spc = "consume"

\* C10: at the end of the file the loop of main_my4.py stays in its read step
\* with the capture back at frame 0, and the frame read right after a rewind
\* is the first frame of the file.
C10_RewindAtEndOfFile ==
    [][/\ (spc = "read" /\ cap.opened /\ file.pos >= file.len) =>
             /\ spc' = "read"
             /\ file' # file => file'.pos = 0
       /\ (spc = "read" /\ spc' = "send" /\ file.rewound) => file'.frame = 0]_vars

\* The first frame of a longer file is in hand again after a rewind.
C10_Witness ==
    /\ spc = "send"
    /\ file.wrapped
    /\ file.frame = 0
    /\ file.len > 1

\* C11: an iteration whose enhancement pipeline raised still has a message to
\* send, at the selected tier's size and quality and tagged is_selected, not
\* the 1 s sleep of the error path; and when that message has gone out the
\* task is in its pacing sleep.
C11_EnhanceFallback ==
    /\ \A p \in Conns :
          tasks[p].enhance_failed =>
             /\ tasks[p].pc = "send"
             /\ tasks[p].msg.is_selected
             /\ tasks[p].msg.data.res = "320x240"
             /\ tasks[p].msg.data.quality = 98
             /\ ~tasks[p].msg.data.enhanced
    /\ (sent.type = "stream" /\ SelectedTier(sent.data) /\ ~sent.data.enhanced) =>
          /\ sent.is_selected
          /\ tasks[sent.by].pc = "sleep"
          /\ tasks[sent.by].delay # ErrorDelay

\* A frame that went through the plain resize has been sent, tagged selected.
C11_Witness ==
    /\ sent.type = "stream"
    /\ sent.data.res = "320x240"
    /\ ~sent.data.enhanced
    /\ sent.is_selected
    /\ tasks[sent.by].pc = "sleep"

\* C12: a send that fails on a closed transport makes the task set running to
\* False and end, and the task starts no connection.
C12_ProducerStopsOnConnectionClosed ==
    [][\A p \in Conns :
          (/\ tasks[p].pc = "send"
           /\ conn[tasks[p].target] # "open"
           /\ tasks'[p].pc # "send") =>
             /\ ~running'
             /\ tasks'[p].pc = "done"
             /\ nconn' = nconn]_vars

\* C13: whenever the consumer loop ends, running is False afterwards.
C13_ConsumerClearsRunning ==
    [][(spc = "consume" /\ spc' # "consume") => ~running']_vars

\* C14: an iteration that fails with anything but ConnectionClosed (the read,
\* the encode step, a send on an open transport) leaves running alone and
\* puts the task into the 1 s sleep before its next read.
C14_BackoffAfterFailure ==
    [][\A p \in Conns :
          /\ (/\ AtLoopHead(p)
              /\ running
              /\ tasks'[p] # tasks[p]
              /\ tasks'[p].pc # "send") =>
                /\ tasks'[p].pc = "backoff"
                /\ tasks'[p].delay = ErrorDelay
                /\ running' = running
          /\ (/\ tasks[p].pc = "send"
              /\ conn[tasks[p].target] = "open"
              /\ tasks'[p].pc \notin {"send", "sleep"}) =>
                /\ tasks'[p].pc = "backoff"
                /\ tasks'[p].delay = ErrorDelay
                /\ running' = running]_vars

\* C15: the supervisor begins a connect attempt for a closure only out of the
\* 5 s sleep, with running False, the task of the closed connection ended and
\* that transport closed.
C15_TeardownThenDelay ==
    [][(spc' = "connect" /\ spc # "connect" /\ trigger'.kind = "closure") =>
          /\ spc = "delay"
          /\ ~running'
          /\ tasks'[trigger'.of].pc \in {"none", "done"}
          /\ conn'[trigger'.of] # "open"]_vars

\* C16: a connect attempt that fails puts the supervisor into the 5 s sleep,
\* the sleep ends only in another connect attempt, and it always ends; only
\* the shutdown signal takes the supervisor out of this round.
C16_RetryForever ==
    /\ [][/\ (spc = "connect" /\ spc' \notin {"connect", "register"}) =>
                (spc' = "delay" \/ (spc' = "stopped" /\ trigger'.kind = "shutdown"))
          /\ (spc = "delay" /\ spc' # "delay") =>
                (spc' = "connect" \/ (spc' = "stopped" /\ trigger'.kind = "shutdown"))]_vars
    /\ (spc = "delay") ~> (spc = "connect" \/ trigger.kind = "shutdown")

\* A connect attempt made by reconnect has failed and the supervisor sleeps.
C16_Witness ==
    /\ spc = "delay"
    /\ inReconnect
    /\ nconn = 1
    /\ ~running

\* C17: when the source does not open, no task is created, running is False,
\* and the supervisor goes into the 5 s sleep before it connects again.
C17_SourceOpenFailure ==
    [][(spc = "open_source" /\ spc' # "open_source" /\ ~cap'.opened) =>
          /\ tasks' = tasks
          /\ ~running'
          /\ spc' = "delay"]_vars

\* C18: once self.cap is an open capture it is never replaced.
C18_SourceHandleKept ==
    [][cap.opened => cap' = cap]_vars

C20_OneProducerPerTransport ==
    /\ Cardinality({p \in Conns : Alive(p)}) <= 1
    /\ sent.type = "stream" => sent.by = sent.conn

\* C21: while running is False no task begins a send and a task at the head
\* of its loop ends there; the supervisor's await of the task always ends;
\* and after the transport in use has closed while the supervisor was in
\* the receive loop, running always becomes False, unless the shutdown
\* signal ends the program first.
C21_CooperativeCancellation ==
    /\ [][\A p \in Conns :
             ~running =>
                /\ tasks[p].pc # "send" => tasks'[p].pc # "send"
                /\ (AtLoopHead(p) /\ tasks'[p] # tasks[p]) => tasks'[p].pc = "done"]_vars
    /\ (spc = "join") ~> (spc # "join")
    /\ (spc = "consume" /\ Closed(relay_ws)) ~> (~running \/ spc = "stopped")

\* C22: the supervisor stops only by the shutdown signal, and at that step
\* no task is left alive, the transport in use is not open any more and the
\* capture is released.
C22_TerminatedOnlyOnShutdown ==
    [][(spc' = "stopped" /\ spc # "stopped") =>
          /\ trigger'.kind = "shutdown"
          /\ \A p \in Conns : tasks'[p].pc \in {"none", "done"}
          /\ relay_ws # 0 => conn'[relay_ws] # "open"
          /\ ~cap'.opened]_vars

====
